---------------------------- MODULE Spec2Model ----------------------------
(***************************************************************************)
(* A model of landsatxplore/earthexplorer.py: the cookie-based login       *)
(* handshake of the EarthExplorer portal and the streamed download of a    *)
(* scene.                                                                  *)
(*                                                                         *)
(* Strings that the code parses (the login page, the Content-Disposition   *)
(* header, paths) are sequences of one-character strings, so that the      *)
(* regular expressions, split, replace and os.path.join are computed as    *)
(* the code computes them.  Strings the code only passes on (URLs, user    *)
(* names, cookie values) are TLA+ strings.  Python's None is "None".       *)
(*                                                                         *)
(* Every handler is a pure operator from the state it reads and the        *)
(* answers of its environment (the portal, the catalog API, the file       *)
(* system) to the state it leaves; the actions apply the operators to      *)
(* answers drawn from bounded sets.                                        *)
(***************************************************************************)
EXTENDS Integers, Sequences, FiniteSets, TLC

VARIABLES
    inst,           \* "none": no instance yet, "ok": __init__ returned, "failed": __init__ raised
    cookies,        \* self.session.cookies: cookie name -> value, "None" when absent
    api,            \* self.api: "None" or the credentials API(...) was built with
    call,           \* the last operation called and its arguments
    io,             \* the requests and collaborator calls of that operation, in order
    outcome,        \* how that operation ended: the exception raised ("None": returned) and the value
    dirs,           \* the directories os.makedirs has made
    files,          \* the output files on disk: path -> [data, closed]
    pbar,           \* the tqdm progress bars the last call made: none, or one [total, n, closed]
    DATA_PRODUCTS   \* the module-level table of data product ids

vars == <<inst, cookies, api, call, io, outcome, dirs, files, pbar, DATA_PRODUCTS>>

None == "None"

(***************************************************************************)
(* Module constants.                                                       *)
(***************************************************************************)
EE_LOGIN_URL == "https://ers.cr.usgs.gov/login/"

EE_LOGOUT_URL == "https://earthexplorer.usgs.gov/logout"

\* EE_DOWNLOAD_URL.format(data_product_id=..., scene_id=...)
EE_DOWNLOAD_URL(data_product_id, scene_id) ==
    "https://earthexplorer.usgs.gov/download/" \o data_product_id \o "/" \o scene_id \o "/EE/"

DataProductsTable ==
    [d \in {"landsat_tm_c1", "landsat_etm_c1", "landsat_8_c1", "landsat_tm_c2_l1",
            "landsat_etm_c2_l1", "landsat_ot_c2_l1", "landsat_tm_c2_l2",
            "landsat_etm_c2_l2", "landsat_ot_c2_l2", "sentinel_2a"} |->
        CASE d = "landsat_tm_c1" -> "5e83d08fd9932768"
          [] d = "landsat_etm_c1" -> "5e83a507d6aaa3db"
          [] d = "landsat_8_c1" -> "5e83d0b84df8d8c2"
          [] d = "landsat_tm_c2_l1" -> "5e83d0a0f94d7d8d"
          [] d = "landsat_etm_c2_l1" -> "5e83d0d08fec8a66"
          [] d = "landsat_ot_c2_l1" -> "5e81f14f92acf9ef"
          [] d = "landsat_tm_c2_l2" -> "5e83d11933473426"
          [] d = "landsat_etm_c2_l2" -> "5e83d12aed0efa58"
          [] d = "landsat_ot_c2_l2" -> "5e83d14fec7cae84"
          [] d = "sentinel_2a" -> "5e83a42c6eba8084"]

\* the name of the cookie logged_in looks for
EROS_SSO == "EROS_SSO_production_secure"

(***************************************************************************)
(* Character strings.                                                      *)
(***************************************************************************)
QUOTE == "\""

NEWLINE == "\n"

\* the literal head of the pattern  name="csrf" value="(.+?)"
CsrfHead ==
    <<"n", "a", "m", "e", "=", "\"", "c", "s", "r", "f", "\"", " ",
      "v", "a", "l", "u", "e", "=", "\"">>

\* the literal head of the pattern  name="__ncforminfo" value="(.+?)"
NcformHead ==
    <<"n", "a", "m", "e", "=", "\"", "_", "_", "n", "c", "f", "o", "r", "m", "i", "n", "f", "o",
      "\"", " ", "v", "a", "l", "u", "e", "=", "\"">>

RECURSIVE Concat(_)
Concat(ss) == IF ss = <<>> THEN <<>> ELSE Head(ss) \o Concat(Tail(ss))

\* the sequences over S of length at most n
SeqsUpTo(S, n) == UNION {[1..k -> S] : k \in 0..n}

(***************************************************************************)
(* re.findall(head + '(.+?)"', s): the groups of the non-overlapping       *)
(* matches, scanning from the left.  A match at i is the literal head,     *)
(* then one or more characters other than a newline, as few as possible,   *)
(* then a quote: the group runs to the first quote at least one character  *)
(* after the head, and there is no match at i when a newline comes first.  *)
(***************************************************************************)
HeadAt(head, s, i) ==
    /\ i + Len(head) - 1 <= Len(s)
    /\ \A k \in 1..Len(head) : s[i + k - 1] = head[k]

\* the position of the quote closing a match whose head ends before `from`, 0 if none
GroupEnd(s, from) ==
    LET qs == {j \in (from + 1)..Len(s) : s[j] = QUOTE}
    IN  IF qs = {} THEN 0
        ELSE LET j == CHOOSE q \in qs : \A r \in qs : q <= r
             IN  IF \A k \in from..(j - 1) : s[k] # NEWLINE THEN j ELSE 0

MatchEnd(head, s, i) ==
    IF HeadAt(head, s, i) THEN GroupEnd(s, i + Len(head)) ELSE 0

RECURSIVE FindAllFrom(_, _, _)
FindAllFrom(head, s, i) ==
    IF i > Len(s) THEN <<>>
    ELSE LET j == MatchEnd(head, s, i)
         IN  IF j # 0
             THEN <<SubSeq(s, i + Len(head), j - 1)>> \o FindAllFrom(head, s, j + 1)
             ELSE FindAllFrom(head, s, i + 1)

findall(head, s) == FindAllFrom(head, s, 1)

(***************************************************************************)
(* _get_tokens(body): element [0] of each findall, which raises IndexError *)
(* on an empty list; then the two emptiness tests.                         *)
(***************************************************************************)
Tokens(exc, msg, csrf, ncform) == [exc |-> exc, msg |-> msg, csrf |-> csrf, ncform |-> ncform]

_get_tokens(body) ==
    LET cs == findall(CsrfHead, body)
        ns == findall(NcformHead, body)
    IN  IF cs = <<>> THEN Tokens("IndexError", "list index out of range", None, None)
        ELSE IF ns = <<>> THEN Tokens("IndexError", "list index out of range", None, None)
        ELSE IF cs[1] = <<>>
             THEN Tokens("EarthExplorerError", "EE: login failed (csrf token not found).", None, None)
        ELSE IF ns[1] = <<>>
             THEN Tokens("EarthExplorerError", "EE: login failed (ncforminfo not found).", None, None)
        ELSE Tokens(None, "", cs[1], ns[1])

(***************************************************************************)
(* The cookie jar.  A response carries Set-Cookie updates: pairs           *)
(* <<name, value>>, value "None" deleting the cookie.                      *)
(***************************************************************************)
CookieNames == {EROS_SSO, "other"}

CookieValues == {None, "", "tok"}

EmptyJar == [n \in CookieNames |-> None]

store(jar, updates) ==
    [n \in CookieNames |->
        IF \E u \in updates : u[1] = n
        THEN (CHOOSE u \in updates : u[1] = n)[2]
        ELSE jar[n]]

\* bool(self.session.cookies.get("EROS_SSO_production_secure"))
\* variant of logged_in: an empty cookie counts as logged in
logged_in_present(jar) == jar[EROS_SSO] # None

logged_in(jar) ==
    LET eros_sso == jar[EROS_SSO]
    IN  eros_sso # None /\ eros_sso # ""


(***************************************************************************)
(* The environment's answers.  A response is [exc, status, body, set]:     *)
(* the exception the request raised instead of returning ("None" when it   *)
(* returned), the status code, the body and the Set-Cookie updates.        *)
(***************************************************************************)
Response(exc, status, body, set) == [exc |-> exc, status |-> status, body |-> body, set |-> set]

\* A login page is built from these fragments of markup.
PagePart(p) ==
    CASE p = "csrf" -> CsrfHead \o <<"a", QUOTE>>            \* name="csrf" value="a"
      [] p = "ncform" -> NcformHead \o <<"b", QUOTE>>        \* name="__ncforminfo" value="b"
      [] p = "csrf2" -> CsrfHead \o <<"c", QUOTE>>           \* name="csrf" value="c"
      [] p = "csrf_empty" -> CsrfHead \o <<QUOTE>>           \* name="csrf" value=""
      [] p = "ncform_open" -> NcformHead \o <<"b">>          \* name="__ncforminfo" value="b
      [] p = "newline" -> <<NEWLINE>>

PageParts == {"csrf", "ncform", "csrf2", "csrf_empty", "ncform_open", "newline"}

\* rsp.text of a page given as its fragments
Text(page) == Concat([k \in 1..Len(page) |-> PagePart(page[k])])

\* the pages the portal may answer with, and the tokens of each, computed once
MaxPageParts == 2

Pages == SeqsUpTo(PageParts, MaxPageParts)

TokenTable == {<<page, _get_tokens(Text(page))>> : page \in Pages}

\* _get_tokens(rsp.text) for the page of rsp
tokens_of(page) == (CHOOSE row \in TokenTable : row[1] = page)[2]

\* one Set-Cookie update at most per response
SetCookies == {{}} \cup {{<<n, v>>} : n \in CookieNames, v \in CookieValues}

(***************************************************************************)
(* One entry of io: a request sent through the session (with the cookie    *)
(* jar it was sent from and the answer it got) or a collaborator call.     *)
(***************************************************************************)
Event(kind, target, data, jar, rsp) ==
    [kind |-> kind, target |-> target, data |-> data, jar |-> jar, rsp |-> rsp]

\* what a handler leaves: the cookie jar, its I/O, the exception raised and the value returned
Ret(jar, evs, exc, msg, value) ==
    [cookies |-> jar, io |-> evs, exc |-> exc, msg |-> msg, value |-> value]

(***************************************************************************)
(* EarthExplorer.login(username, password), with g the portal's answer to  *)
(* the GET of the login page and p its answer to the POST.                 *)
(***************************************************************************)
\* variant of check_login: the status code of the POST decides too
check_login_status(jar, evs, rsp) ==
    IF ~logged_in(jar) \/ rsp.status # 200
    THEN Ret(jar, evs, "EarthExplorerError", "EE: login failed.", None)
    ELSE Ret(jar, evs, None, "", None)

\* the check that ends login, after the POST answered rsp: raise unless logged_in()
\* variant of check_login: the cookie must have been set by the response of this attempt
check_login_fresh(jar, evs, rsp) ==
    IF ~logged_in(jar) \/ ~(\E c \in rsp.set : c[1] = EROS_SSO /\ c[2] # None)
    THEN Ret(jar, evs, "EarthExplorerError", "EE: login failed.", None)
    ELSE Ret(jar, evs, None, "", None)

check_login(jar, evs, rsp) ==
    IF ~logged_in(jar)
    THEN Ret(jar, evs, "EarthExplorerError", "EE: login failed.", None)
    ELSE Ret(jar, evs, None, "", None)

\* variant of login_payload: the two tokens change places
login_payload_swapped(username, password, tok) ==
    [username |-> username, password |-> password,
     csrf |-> tok.ncform, __ncforminfo |-> tok.csrf]

\* payload = {"username": ..., "password": ..., "csrf": csrf, "__ncforminfo": ncform}
login_payload(username, password, tok) ==
    [username |-> username, password |-> password,
     csrf |-> tok.csrf, __ncforminfo |-> tok.ncform]

login(jar, username, password, g, p) ==
    LET get == Event("GET", EE_LOGIN_URL, None, jar, g)
    IN  IF g.exc # None THEN Ret(jar, <<get>>, g.exc, "", None)
        ELSE
        LET jar1 == store(jar, g.set)
            tok == tokens_of(g.body)
        IN  IF tok.exc # None THEN Ret(jar1, <<get>>, tok.exc, tok.msg, None)
            ELSE
            LET payload == login_payload(username, password, tok)
                post == Event("POST", EE_LOGIN_URL, payload, jar1, p)
            IN  IF p.exc # None THEN Ret(jar1, <<get, post>>, p.exc, "", None)
                ELSE
                check_login(store(jar1, p.set), <<get, post>>, p)

(***************************************************************************)
(* EarthExplorer.__init__(username, password): a fresh session, login,     *)
(* then API(username, password), whose constructor answers a (it raises    *)
(* when a.exc is not "None").  The result carries the api attribute too.   *)
(***************************************************************************)
__init__(username, password, g, p, a) ==
    LET r == login(EmptyJar, username, password, g, p)
        mk == Event("API", "landsatxplore.api.API", <<username, password>>, None, a)
    IN  IF r.exc # None THEN [r EXCEPT !.value = None] @@ [api |-> None]
        ELSE IF a.exc # None
             THEN Ret(r.cookies, r.io \o <<mk>>, a.exc, "", None) @@ [api |-> None]
        ELSE Ret(r.cookies, r.io \o <<mk>>, None, "", None) @@ [api |-> <<username, password>>]

(***************************************************************************)
(* EarthExplorer.logout(), with g the portal's answer to the GET.          *)
(***************************************************************************)
\* variant of logout: the cookie jar is cleared after the GET
logout_clear(jar, g) ==
    LET get == Event("GET", EE_LOGOUT_URL, None, jar, g)
    IN  IF g.exc # None THEN Ret(jar, <<get>>, g.exc, "", None)
        ELSE Ret(EmptyJar, <<get>>, None, "", None)

\* variant of logout: a failure of the GET is swallowed
logout_quiet(jar, g) ==
    LET get == Event("GET", EE_LOGOUT_URL, None, jar, g)
    IN  IF g.exc # None THEN Ret(jar, <<get>>, None, "", None)
        ELSE Ret(store(jar, g.set), <<get>>, None, "", None)

logout(jar, g) ==
    LET get == Event("GET", EE_LOGOUT_URL, None, jar, g)
    IN  IF g.exc # None THEN Ret(jar, <<get>>, g.exc, "", None)
        ELSE Ret(store(jar, g.set), <<get>>, None, "", None)


(***************************************************************************)
(* The pieces of _download that compute the output path.                   *)
(***************************************************************************)
\* s.split("=")[-1]: what follows the last "=", all of s when it has none
split_last(s) ==
    LET eqs == {i \in 1..Len(s) : s[i] = "="}
    IN  IF eqs = {} THEN s
        ELSE SubSeq(s, (CHOOSE i \in eqs : \A j \in eqs : j <= i) + 1, Len(s))

\* s.replace('"', "")
replace_quotes(s) == SelectSeq(s, LAMBDA c : c # QUOTE)

\* os.path.join(a, b) of posixpath
join(a, b) ==
    IF b # <<>> /\ b[1] = "/" THEN b
    ELSE IF a = <<>> \/ a[Len(a)] = "/" THEN a \o b
    ELSE a \o <<"/">> \o b

\* int(v) of a header value: "None" raises TypeError, a string that is no number ValueError
Digits == <<"0", "1", "2", "3", "4", "5", "6", "7", "8", "9">>

IsDigit(c) == \E d \in 1..10 : Digits[d] = c

DigitValue(c) == (CHOOSE d \in 1..10 : Digits[d] = c) - 1

RECURSIVE Decimal(_)
Decimal(s) == IF s = <<>> THEN 0 ELSE 10 * Decimal(SubSeq(s, 1, Len(s) - 1)) + DigitValue(s[Len(s)])

int(v) ==
    IF v = None THEN [exc |-> "TypeError", value |-> 0]
    ELSE IF v = <<>> \/ \E i \in 1..Len(v) : ~IsDigit(v[i]) THEN [exc |-> "ValueError", value |-> 0]
    ELSE [exc |-> None, value |-> Decimal(v)]

(***************************************************************************)
(* The streamed response: [exc, status, set, headers, chunks, tail].  exc  *)
(* is what session.get raised before any response ("ConnectTimeout" and    *)
(* "ReadTimeout" are the two subclasses of requests.exceptions.Timeout);   *)
(* headers is r.headers, a dictionary from header names to their text;     *)
(* chunks is what the body yields, each chunk a block [bytes, size]; tail  *)
(* is how the body ends: "eof", or the urllib3 error that interrupts the   *)
(* read after the chunks.                                                  *)
(***************************************************************************)
Stream(exc, status, set, headers, chunks, tail) ==
    [exc |-> exc, status |-> status, set |-> set, headers |-> headers,
     chunks |-> chunks, tail |-> tail]

Headers(cl, cd) == ("Content-Length" :> cl) @@ ("Content-Disposition" :> cd)

NoHeaders == <<>>

\* variant of headers_get: a header the response lacks reads as 0
headers_get_default(headers, name) == IF name \in DOMAIN headers THEN headers[name] ELSE <<"0">>

\* r.headers.get(name)
headers_get(headers, name) == IF name \in DOMAIN headers THEN headers[name] ELSE None

\* the exceptions   except requests.exceptions.Timeout   catches
IsTimeout(exc) == exc \in {"ConnectTimeout", "ReadTimeout"}

\* What r.iter_content raises when the read of the body is interrupted:
\* requests.models.Response.iter_content wraps urllib3's ReadTimeoutError in
\* requests.exceptions.ConnectionError and its ProtocolError in
\* ChunkedEncodingError; neither is a requests.exceptions.Timeout.
iter_content_exc(tail) ==
    CASE tail = "eof" -> None
      [] tail = "ReadTimeoutError" -> "ConnectionError"
      [] tail = "ProtocolError" -> "ChunkedEncodingError"

\* variant of write_chunk: only full chunks are written
write_chunk_full(w, chunk, chunk_size) ==
    IF chunk.size # 0
    THEN [data |-> IF chunk.size = chunk_size THEN Append(w.data, chunk) ELSE w.data,
          n |-> w.n + chunk_size]
    ELSE w

\* variant of write_chunk: pbar.update(len(chunk))
write_chunk_len(w, chunk, chunk_size) ==
    IF chunk.size # 0
    THEN [data |-> Append(w.data, chunk), n |-> w.n + chunk.size]
    ELSE w

\* the body of the for loop: if chunk: f.write(chunk); pbar.update(chunk_size).  w is
\* what was written to f so far and the count of the progress bar.
write_chunk(w, chunk, chunk_size) ==
    IF chunk.size # 0
    THEN [data |-> Append(w.data, chunk), n |-> w.n + chunk_size]
    ELSE w

\* the for loop over the chunks r.iter_content yields
RECURSIVE write_chunks(_, _, _)
write_chunks(w, chunks, chunk_size) ==
    IF chunks = <<>> THEN w
    ELSE write_chunks(write_chunk(w, Head(chunks), chunk_size), Tail(chunks), chunk_size)

\* what _download and download leave: Ret and the file system and the progress bar
DRet(jar, evs, exc, msg, value, ds, fs, bar) ==
    Ret(jar, evs, exc, msg, value) @@ [dirs |-> ds, files |-> fs, pbar |-> bar]

Bar(total, n, closed) == [total |-> total, n |-> n, closed |-> closed]

File(data, closed) == [data |-> data, closed |-> closed]

\* variant of leave_file: the file of a download that fails is removed
leave_file_cleanup(fs, local_filename, data, exc) ==
    IF exc = None THEN (local_filename :> File(data, TRUE)) @@ fs
    ELSE [f \in DOMAIN fs \ {local_filename} |-> fs[f]]

\* what   with open(local_filename, "wb") as f   leaves on disk when its block ends,
\* normally or with exc: the file, closed, with the data written to it
leave_file(fs, local_filename, data, exc) == (local_filename :> File(data, TRUE)) @@ fs

timeout_message(timeout) == "Connection timeout after " \o ToString(timeout) \o " seconds."

\* variant of session_get: requests.get, which sends no cookie of the session
session_get_plain(jar, url, timeout, rsp) ==
    Event("GET stream", url, [timeout |-> timeout], EmptyJar, rsp)

\* self.session.get(url, stream=True, allow_redirects=True, timeout=timeout), answered rsp
session_get(jar, url, timeout, rsp) == Event("GET stream", url, [timeout |-> timeout], jar, rsp)

\* variant of local_path: the quotes stay
local_path_quoted(output_dir, cd) == join(output_dir, split_last(cd))

\* local_filename: the Content-Disposition header after its last "=", without quotes,
\* joined to output_dir
local_path(output_dir, cd) == join(output_dir, replace_quotes(split_last(cd)))

(***************************************************************************)
(* EarthExplorer._download(url, output_dir, timeout, chunk_size), with rsp *)
(* the portal's answer and open_exc what open(local_filename, "wb") raises *)
(* ("None": it opens the file).                                            *)
(***************************************************************************)
_download(jar, ds, fs, url, output_dir, timeout, chunk_size, rsp, open_exc) ==
    LET get == session_get(jar, url, timeout, rsp)
    IN  IF rsp.exc # None
        THEN IF IsTimeout(rsp.exc)
             THEN DRet(jar, <<get>>, "EarthExplorerError", timeout_message(timeout), None, ds, fs, <<>>)
             ELSE DRet(jar, <<get>>, rsp.exc, "", None, ds, fs, <<>>)
        ELSE
        LET jar1 == store(jar, rsp.set)
            file_size == int(headers_get(rsp.headers, "Content-Length"))
        IN  IF file_size.exc # None
            THEN DRet(jar1, <<get>>, file_size.exc, "", None, ds, fs, <<>>)
            ELSE IF "Content-Disposition" \notin DOMAIN rsp.headers
            THEN DRet(jar1, <<get>>, "KeyError", "Content-Disposition", None, ds, fs,
                      <<Bar(file_size.value, 0, TRUE)>>)
            ELSE
            LET local_filename == local_path(output_dir, rsp.headers["Content-Disposition"])
                opened == Event("open", local_filename, "wb", None, [exc |-> open_exc])
            IN  IF open_exc # None
                THEN DRet(jar1, <<get, opened>>, open_exc, "", None, ds, fs,
                          <<Bar(file_size.value, 0, TRUE)>>)
                ELSE
                LET w == write_chunks([data |-> <<>>, n |-> 0], rsp.chunks, chunk_size)
                    exc == iter_content_exc(rsp.tail)
                    fs1 == leave_file(fs, local_filename, w.data, exc)
                    bar == <<Bar(file_size.value, w.n, TRUE)>>
                IN  IF exc = None
                    THEN DRet(jar1, <<get, opened>>, None, "", local_filename, ds, fs1, bar)
                    ELSE IF IsTimeout(exc)
                    THEN DRet(jar1, <<get, opened>>, "EarthExplorerError",
                              timeout_message(timeout), None, ds, fs1, bar)
                    ELSE DRet(jar1, <<get, opened>>, exc, "", None, ds, fs1, bar)

(***************************************************************************)
(* The collaborators of download.  is_product_id tells the two shapes of   *)
(* identifier apart; guess_dataset and API.get_scene_id are answered by    *)
(* the environment: [exc, value].                                          *)
(***************************************************************************)
SceneIds == {"LC80100172015082LGN00"}

ProductIds == {"LC08_L1TP_010017_20150323_20170412_01_T1"}

is_product_id(scene_id) == scene_id \in ProductIds

\* the default of download's timeout parameter and of _download's chunk_size
DefaultTimeout == 300

DefaultChunkSize == 1024

Answer(exc, value) == [exc |-> exc, value |-> value]

\* if not dataset: dataset = guess_dataset(scene_id)
guess_step(scene_id, dataset, answer) ==
    IF dataset \in {None, ""}
    THEN [evs |-> <<Event("guess_dataset", scene_id, None, None, answer)>>,
          exc |-> answer.exc, dataset |-> answer.value]
    ELSE [evs |-> <<>>, exc |-> None, dataset |-> dataset]

\* variant of resolve_step: every identifier is resolved
resolve_step_always(scene_id, dataset, answer) ==
    [evs |-> <<Event("get_scene_id", scene_id, dataset, None, answer)>>,
     exc |-> answer.exc, scene_id |-> answer.value]

\* if is_product_id(scene_id): scene_id = self.api.get_scene_id(scene_id, dataset)
resolve_step(scene_id, dataset, answer) ==
    IF is_product_id(scene_id)
    THEN [evs |-> <<Event("get_scene_id", scene_id, dataset, None, answer)>>,
          exc |-> answer.exc, scene_id |-> answer.value]
    ELSE [evs |-> <<>>, exc |-> None, scene_id |-> scene_id]

\* variant of url_step: DATA_PRODUCTS.get(dataset, ...) with a default product
url_step_default(table, dataset, scene_id) ==
    [exc |-> None,
     url |-> EE_DOWNLOAD_URL(IF dataset \in DOMAIN table THEN table[dataset]
                             ELSE table["landsat_8_c1"], scene_id)]

\* variant of url_step: the two fields of the URL swapped
url_step_swapped(table, dataset, scene_id) ==
    IF dataset \notin DOMAIN table
    THEN [exc |-> "KeyError", url |-> None]
    ELSE [exc |-> None, url |-> EE_DOWNLOAD_URL(scene_id, table[dataset])]

\* url = EE_DOWNLOAD_URL.format(data_product_id=DATA_PRODUCTS[dataset], scene_id=scene_id)
url_step(table, dataset, scene_id) ==
    IF dataset \notin DOMAIN table
    THEN [exc |-> "KeyError", url |-> None]
    ELSE [exc |-> None, url |-> EE_DOWNLOAD_URL(table[dataset], scene_id)]

\* variant of download: a download on a session without the cookie is refused
download_guarded(jar, ds, fs, table, scene_id, output_dir, dataset, timeout, env) ==
    IF ~logged_in(jar)
    THEN DRet(jar, <<>>, "EarthExplorerError", "EE: login failed.", None, ds, fs, <<>>)
    ELSE
    LET mk == Event("makedirs", output_dir, None, None, [exc |-> env.makedirs])
    IN  IF env.makedirs # None THEN DRet(jar, <<mk>>, env.makedirs, "", None, ds, fs, <<>>)
        ELSE
        LET ds1 == ds \cup {output_dir}
            g == guess_step(scene_id, dataset, env.guess)
        IN  IF g.exc # None THEN DRet(jar, <<mk>> \o g.evs, g.exc, "", None, ds1, fs, <<>>)
            ELSE
            LET r == resolve_step(scene_id, g.dataset, env.resolve)
                evs == <<mk>> \o g.evs \o r.evs
            IN  IF r.exc # None THEN DRet(jar, evs, r.exc, "", None, ds1, fs, <<>>)
                ELSE
                LET u == url_step(table, g.dataset, r.scene_id)
                IN  IF u.exc # None THEN DRet(jar, evs, u.exc, g.dataset, None, ds1, fs, <<>>)
                    ELSE
                    LET d == _download(jar, ds1, fs, u.url, output_dir, timeout,
                                       DefaultChunkSize, env.rsp, env.open)
                    IN  [d EXCEPT !.io = evs \o d.io]

(***************************************************************************)
(* EarthExplorer.download(scene_id, output_dir, dataset, timeout), with    *)
(* env the answers of the file system, the collaborators and the portal.   *)
(***************************************************************************)
download(jar, ds, fs, table, scene_id, output_dir, dataset, timeout, env) ==
    LET mk == Event("makedirs", output_dir, None, None, [exc |-> env.makedirs])
    IN  IF env.makedirs # None THEN DRet(jar, <<mk>>, env.makedirs, "", None, ds, fs, <<>>)
        ELSE
        LET ds1 == ds \cup {output_dir}
            g == guess_step(scene_id, dataset, env.guess)
        IN  IF g.exc # None THEN DRet(jar, <<mk>> \o g.evs, g.exc, "", None, ds1, fs, <<>>)
            ELSE
            LET r == resolve_step(scene_id, g.dataset, env.resolve)
                evs == <<mk>> \o g.evs \o r.evs
            IN  IF r.exc # None THEN DRet(jar, evs, r.exc, "", None, ds1, fs, <<>>)
                ELSE
                LET u == url_step(table, g.dataset, r.scene_id)
                IN  IF u.exc # None THEN DRet(jar, evs, u.exc, g.dataset, None, ds1, fs, <<>>)
                    ELSE
                    LET d == _download(jar, ds1, fs, u.url, output_dir, timeout,
                                       DefaultChunkSize, env.rsp, env.open)
                    IN  [d EXCEPT !.io = evs \o d.io]

(***************************************************************************)
(* The actions: one per operation of EarthExplorer, applied to the         *)
(* caller's arguments and the environment's answers.                       *)
(***************************************************************************)
Call(op, args) == [op |-> op, args |-> args]

Outcome(r) == [exc |-> r.exc, msg |-> r.msg, value |-> r.value]

\* ee = EarthExplorer(username, password), when no instance is alive
Construct(username, password, g, p, a) ==
    LET r == __init__(username, password, g, p, a)
    IN  /\ inst # "ok"
        /\ inst' = IF r.exc = None THEN "ok" ELSE "failed"
        /\ cookies' = r.cookies
        /\ api' = r.api
        /\ call' = Call("__init__", <<username, password>>)
        /\ io' = r.io
        /\ outcome' = Outcome(r)
        /\ pbar' = <<>>
        /\ UNCHANGED <<dirs, files, DATA_PRODUCTS>>

\* ee.login(username, password)
Login(username, password, g, p) ==
    \E r \in {login(cookies, username, password, g, p)} :
        /\ inst = "ok"
        /\ cookies' = r.cookies
        /\ call' = Call("login", <<username, password>>)
        /\ io' = r.io
        /\ outcome' = Outcome(r)
        /\ pbar' = <<>>
        /\ UNCHANGED <<inst, api, dirs, files, DATA_PRODUCTS>>

\* ee.logged_in()
LoggedIn ==
    /\ inst = "ok"
    /\ call' = Call("logged_in", <<>>)
    /\ io' = <<>>
    /\ outcome' = [exc |-> None, msg |-> "", value |-> logged_in(cookies)]
    /\ pbar' = <<>>
    /\ UNCHANGED <<inst, cookies, api, dirs, files, DATA_PRODUCTS>>

\* ee.logout()
Logout(g) ==
    \E r \in {logout(cookies, g)} :
        /\ inst = "ok"
        /\ cookies' = r.cookies
        /\ call' = Call("logout", <<>>)
        /\ io' = r.io
        /\ outcome' = Outcome(r)
        /\ pbar' = <<>>
        /\ UNCHANGED <<inst, api, dirs, files, DATA_PRODUCTS>>

\* ee.download(scene_id, output_dir, dataset, timeout)
Download(scene_id, output_dir, dataset, timeout, env) ==
    \E r \in {download(cookies, dirs, files, DATA_PRODUCTS, scene_id, output_dir, dataset,
                      timeout, env)} :
        /\ inst = "ok"
        /\ cookies' = r.cookies
        /\ call' = Call("download", <<scene_id, output_dir, dataset, timeout>>)
        /\ io' = r.io
        /\ outcome' = Outcome(r)
        /\ dirs' = r.dirs
        /\ files' = r.files
        /\ pbar' = r.pbar
        /\ UNCHANGED <<inst, api, DATA_PRODUCTS>>

(***************************************************************************)
(* The answers a request that is never sent would have got are not drawn:  *)
(* they are fixed to these.                                                *)
(***************************************************************************)
Unasked == Response(None, 0, <<>>, {})

UnaskedStream == Stream(None, 0, {}, NoHeaders, <<>>, "eof")

\* login sends its POST: the GET returned and both tokens were found
SendsPost(g) == g.exc = None /\ tokens_of(g.body).exc = None

\* the answers to the POST that follows the GET answered g
PostsFor(g, posts) == IF SendsPost(g) THEN posts ELSE {Unasked}

Env(makedirs, guess, resolve, rsp, open) ==
    [makedirs |-> makedirs, guess |-> guess, resolve |-> resolve, rsp |-> rsp, open |-> open]

\* The environments of download(scene_id, ..., dataset, ...): each answer that is asked
\* for is drawn from its set in S, and each answer that is not asked for is fixed.
Envs(scene_id, dataset, S) ==
    LET guessed == dataset \in {None, ""}
        resolved == is_product_id(scene_id)
        NoAnswer == Answer(None, None)
    IN  {e \in {Env(m, g, r, s, o) :
                    m \in S.makedirs, g \in S.guess \cup {NoAnswer},
                    r \in S.resolve \cup {NoAnswer}, s \in S.rsp \cup {UnaskedStream},
                    o \in S.open \cup {None}} :
            LET to_guess == e.makedirs = None
                to_resolve == to_guess /\ (guessed => e.guess.exc = None)
                to_get == /\ to_resolve
                          /\ resolved => e.resolve.exc = None
                          /\ (IF guessed THEN e.guess.value ELSE dataset) \in DOMAIN DATA_PRODUCTS
                to_open == /\ to_get /\ e.rsp.exc = None
                           /\ int(headers_get(e.rsp.headers, "Content-Length")).exc = None
                           /\ "Content-Disposition" \in DOMAIN e.rsp.headers
            IN  /\ IF guessed /\ to_guess THEN e.guess \in S.guess ELSE e.guess = NoAnswer
                /\ IF resolved /\ to_resolve THEN e.resolve \in S.resolve ELSE e.resolve = NoAnswer
                /\ IF to_get THEN e.rsp \in S.rsp ELSE e.rsp = UnaskedStream
                /\ IF to_open THEN e.open \in S.open ELSE e.open = None}


(***************************************************************************)
(* The inputs of the life cycle: the caller's arguments and the portal's   *)
(* answers.                                                                *)
(***************************************************************************)
Credentials == {<<"alice", "pw1">>, <<"bob", "pw2">>}

ConnectionFailed == Response("ConnectionError", 0, <<>>, {})

\* a page with both tokens and a page without the csrf attribute
LoginPages == {<<"csrf", "ncform">>, <<"ncform">>}

LoginGets == {ConnectionFailed} \cup {Response(None, 200, page, {}) : page \in LoginPages}

\* the POST is answered 200 or 401, with an empty body or the login page again, and
\* sets the cookie, deletes it or leaves it alone
LoginPosts ==
    {ConnectionFailed} \cup
    {Response(None, status, body, set) :
        status \in {200, 401}, body \in {<<>>, <<"csrf", "ncform">>},
        set \in {{}, {<<EROS_SSO, "tok">>}, {<<EROS_SSO, None>>}}}

ApiAnswers == {[exc |-> None], [exc |-> "USGSError"]}

LogoutGets == {ConnectionFailed} \cup {Response(None, 200, <<>>, set) : set \in SetCookies}

Datasets == {None, "", "landsat_ot_c2_l1", "sentinel_2a", "landsat_9"}

OutputDirs == {<<"o">>}

Timeouts == {DefaultTimeout}

GuessAnswers == {Answer(None, "landsat_8_c1"), Answer(None, "landsat_9"), Answer("ValueError", None)}

SceneIdAnswers == {Answer(None, "LC80100172015082LGN00"), Answer("USGSError", None)}

\* Content-Disposition: ="a"
FileHeader == <<"=", QUOTE, "a", QUOTE>>

\* one block of the body
Block == [bytes |-> "A", size |-> 1]

Streams ==
    {Stream("ReadTimeout", 0, {}, NoHeaders, <<>>, "eof")} \cup
    {Stream(None, 200, set, Headers(<<"1">>, FileHeader), <<Block>>, "eof") :
        set \in {{}, {<<EROS_SSO, None>>}}}

DownloadAnswers ==
    [makedirs |-> {None}, guess |-> GuessAnswers, resolve |-> SceneIdAnswers, rsp |-> Streams,
     open |-> {None}]

Init ==
    /\ inst = "none"
    /\ cookies = EmptyJar
    /\ api = None
    /\ call = Call("None", <<>>)
    /\ io = <<>>
    /\ outcome = [exc |-> None, msg |-> "", value |-> None]
    /\ dirs = {}
    /\ files = <<>>
    /\ pbar = <<>>
    /\ DATA_PRODUCTS = DataProductsTable

Next ==
    \/ \E c \in Credentials, g \in LoginGets :
            \E p \in PostsFor(g, LoginPosts), a \in ApiAnswers : Construct(c[1], c[2], g, p, a)
    \/ \E c \in Credentials, g \in LoginGets :
            \E p \in PostsFor(g, LoginPosts) : Login(c[1], c[2], g, p)
    \/ LoggedIn
    \/ \E g \in LogoutGets : Logout(g)
    \/ \E s \in SceneIds \cup ProductIds, o \in OutputDirs, d \in Datasets, t \in Timeouts :
            \E env \in Envs(s, d, DownloadAnswers) : Download(s, o, d, t, env)

\* the life cycle of one EarthExplorer, with every answer of the portal to the session
Spec == Init /\ [][Next]_vars

(***************************************************************************)
(* The same life cycle with a portal that answers the session's requests   *)
(* plainly: the login page has both tokens, the POST sets the cookie or    *)
(* does not, and the logout answer is given per specification.             *)
(***************************************************************************)
User == <<"alice", "pw1">>

PlainGets == {Response(None, 200, <<"csrf", "ncform">>, {})}

PlainPosts == {Response(None, 200, <<>>, {<<EROS_SSO, "tok">>}), Response(None, 200, <<>>, {})}

PlainApi == {[exc |-> None]}

\* the logout answer deletes the cookie / leaves the jar alone
DeletingLogouts == {Response(None, 200, <<>>, {<<EROS_SSO, None>>})}

SilentLogouts == {Response(None, 200, <<>>, {})}

(***************************************************************************)
(* Downloads of every dataset: every name of the table, a name that is not *)
(* in it, no name and the empty name; both shapes of identifier.           *)
(***************************************************************************)
ResolveDatasets == {None, "", "landsat_9"} \cup DOMAIN DataProductsTable

ResolveAnswers ==
    [makedirs |-> {None, "OSError"},
     guess |-> {Answer(None, "landsat_ot_c2_l1"), Answer(None, "landsat_9"),
                Answer("ValueError", None)},
     resolve |-> {Answer(None, "LC80100172015082LGN00"), Answer(None, "LC80100172015098LGN00"),
                  Answer("USGSError", None)},
     rsp |-> {Stream("ConnectionError", 0, {}, NoHeaders, <<>>, "eof"),
              Stream(None, 200, {}, Headers(<<"1">>, FileHeader), <<Block>>, "eof")},
     open |-> {None}]

NextResolve ==
    \/ \E g \in PlainGets, p \in PlainPosts, a \in PlainApi : Construct(User[1], User[2], g, p, a)
    \/ \E g \in PlainGets, p \in PlainPosts : Login(User[1], User[2], g, p)
    \/ LoggedIn
    \/ \E g \in DeletingLogouts : Logout(g)
    \/ \E s \in SceneIds \cup ProductIds, o \in OutputDirs, d \in ResolveDatasets, t \in Timeouts :
            \E env \in Envs(s, d, ResolveAnswers) : Download(s, o, d, t, env)

SpecResolve == Init /\ [][NextResolve]_vars

(***************************************************************************)
(* Downloads of every Content-Disposition header of at most MaxHeaderLen   *)
(* characters, into an output directory that holds no file yet.            *)
(***************************************************************************)
MaxHeaderLen == 4

HeaderChars == {"=", QUOTE, "a", "/"}

Dispositions == SeqsUpTo(HeaderChars, MaxHeaderLen)

HeaderDirs == {<<"o">>, <<"o", "/">>}

\* every Content-Disposition; no Content-Disposition; no Content-Length; a Content-Length
\* that is not a number
HeaderStreams ==
    {Stream(None, 200, {}, h, <<Block>>, "eof") :
        h \in {Headers(<<"1">>, cd) : cd \in Dispositions} \cup
              {"Content-Length" :> <<"1">>, "Content-Disposition" :> FileHeader} \cup
              {Headers(cl, FileHeader) : cl \in {<<>>, <<"x">>}}}

HeaderAnswers ==
    [makedirs |-> {None}, guess |-> {Answer(None, "landsat_ot_c2_l1")},
     resolve |-> {Answer(None, "LC80100172015082LGN00")}, rsp |-> HeaderStreams,
     open |-> {None}]

NextHeaders ==
    \/ \E g \in PlainGets, p \in PlainPosts, a \in PlainApi : Construct(User[1], User[2], g, p, a)
    \/ \E g \in PlainGets, p \in PlainPosts : Login(User[1], User[2], g, p)
    \/ LoggedIn
    \/ \E g \in SilentLogouts : Logout(g)
    \/ /\ files = <<>>
       /\ \E s \in SceneIds, o \in HeaderDirs, d \in {"landsat_ot_c2_l1"}, t \in Timeouts :
            \E env \in Envs(s, d, HeaderAnswers) : Download(s, o, d, t, env)

SpecHeaders == Init /\ [][NextHeaders]_vars

(***************************************************************************)
(* Downloads of every body of at most MaxChunks chunks, that ends or is    *)
(* cut by a read timeout, and of every failure of the request itself.      *)
(***************************************************************************)
MaxChunks == 2

\* a full chunk, a short chunk and an empty chunk
ChunkSet == {[bytes |-> "A", size |-> 1024], [bytes |-> "b", size |-> 1],
             [bytes |-> "", size |-> 0]}

Bodies == SeqsUpTo(ChunkSet, MaxChunks)

Tails == {"eof", "ReadTimeoutError", "ProtocolError"}

StreamTimeouts == {DefaultTimeout, 5}

BodyStreams ==
    {Stream(e, 0, {}, NoHeaders, <<>>, "eof") :
        e \in {"ConnectTimeout", "ReadTimeout", "ConnectionError"}} \cup
    {Stream(None, 200, {}, Headers(<<"2", "0">>, FileHeader), chunks, tail) :
        chunks \in Bodies, tail \in Tails}

StreamAnswers ==
    [makedirs |-> {None}, guess |-> {Answer(None, "landsat_ot_c2_l1")},
     resolve |-> {Answer(None, "LC80100172015082LGN00")}, rsp |-> BodyStreams,
     open |-> {None}]

NextStream ==
    \/ \E g \in PlainGets, p \in PlainPosts, a \in PlainApi : Construct(User[1], User[2], g, p, a)
    \/ \E g \in PlainGets, p \in PlainPosts : Login(User[1], User[2], g, p)
    \/ LoggedIn
    \/ \E g \in SilentLogouts : Logout(g)
    \/ \E s \in SceneIds, o \in OutputDirs, d \in {"landsat_ot_c2_l1"}, t \in StreamTimeouts :
            \E env \in Envs(s, d, StreamAnswers) : Download(s, o, d, t, env)

SpecStream == Init /\ [][NextStream]_vars

(***************************************************************************)
(* Logins with every login page of at most MaxPageParts fragments.         *)
(***************************************************************************)
TokenGets == {ConnectionFailed} \cup {Response(None, 200, page, {}) : page \in Pages}

TokenAnswers ==
    [makedirs |-> {None}, guess |-> {Answer(None, "landsat_ot_c2_l1")},
     resolve |-> {Answer(None, "LC80100172015082LGN00")},
     rsp |-> {Stream(None, 200, {}, Headers(<<"1">>, FileHeader), <<Block>>, "eof")},
     open |-> {None}]

NextTokens ==
    \/ \E g \in TokenGets :
            \E p \in PostsFor(g, PlainPosts), a \in PlainApi : Construct(User[1], User[2], g, p, a)
    \/ \E c \in Credentials, g \in TokenGets :
            \E p \in PostsFor(g, PlainPosts) : Login(c[1], c[2], g, p)
    \/ LoggedIn
    \/ \E g \in SilentLogouts : Logout(g)
    \/ \E s \in SceneIds, o \in OutputDirs, d \in {"landsat_ot_c2_l1"}, t \in Timeouts :
            \E env \in Envs(s, d, TokenAnswers) : Download(s, o, d, t, env)

SpecTokens == Init /\ [][NextTokens]_vars

(***************************************************************************)
(* The properties.  They read the last call (call), what it sent and was   *)
(* answered (io), how it ended (outcome) and the state it left.            *)
(***************************************************************************)
\* the positions in io of the events of one kind
EventsOf(kind) == {i \in DOMAIN io : io[i].kind = kind}

\* the authentication cookie is present and non-empty in jar
AuthCookie(jar) == jar[EROS_SSO] # None /\ jar[EROS_SSO] # ""

\* the last call made a login attempt: login itself, or the login of the constructor
LoginAttempt == call.op \in {"login", "__init__"}

\* the GET of the login page returned a body
LoginPageReturned == io # <<>> /\ io[1].kind = "GET" /\ io[1].rsp.exc = None

\* that body has no match of the csrf pattern or none of the __ncforminfo pattern
TokenMissing ==
    \/ findall(CsrfHead, Text(io[1].rsp.body)) = <<>>
    \/ findall(NcformHead, Text(io[1].rsp.body)) = <<>>

\* C1: in a login attempt whose GET of the login page returned a body without a match of
\* the csrf pattern or without a match of the __ncforminfo pattern, the attempt fails with
\* EarthExplorerError and sends no POST.
C1_MissingTokenIsLoginError ==
    (LoginAttempt /\ LoginPageReturned /\ TokenMissing)
        => outcome.exc = "EarthExplorerError" /\ EventsOf("POST") = {}

\* the login POST of the last call was answered
PostCompleted == \E i \in EventsOf("POST") : io[i].rsp.exc = None

\* the login of the last call returned normally: login raised nothing; the constructor went
\* on to create the API client
LoginReturned == IF call.op = "login" THEN outcome.exc = None ELSE EventsOf("API") # {}

\* C2: a login attempt returns normally only after its POST completed, and when the POST
\* completed it returns normally if and only if the cookie jar then holds a non-empty
\* authentication cookie, whatever the status code and the body of the POST's response;
\* otherwise it raises EarthExplorerError("EE: login failed.").
C2_LoginOutcomeIsTheCookie ==
    LoginAttempt =>
        /\ LoginReturned => PostCompleted
        /\ PostCompleted =>
            /\ LoginReturned <=> AuthCookie(cookies)
            /\ ~LoginReturned =>
                outcome.exc = "EarthExplorerError" /\ outcome.msg = "EE: login failed."

\* C2 happens: a login whose POST was answered 401 with the cookie set returned normally
C2_Witness ==
    /\ call.op = "login" /\ outcome.exc = None
    /\ \E i \in EventsOf("POST") : io[i].rsp.status = 401 /\ io[i].rsp.set # {}

\* C3: a construction starts with the GET of the login page, and when every request it sent
\* was answered it either yields an instance that is logged in, with its API client, or
\* fails with EarthExplorerError, yields no instance and creates no API client.
C3_ConstructLogsInOrLoginError ==
    (call.op = "__init__" /\ \A i \in DOMAIN io : io[i].rsp.exc = None) =>
        /\ io # <<>> /\ io[1].kind = "GET" /\ io[1].target = EE_LOGIN_URL
        /\ \/ outcome.exc = None /\ inst = "ok" /\ AuthCookie(cookies) /\ api # None
           \/ /\ outcome.exc = "EarthExplorerError" /\ inst = "failed"
              /\ api = None /\ EventsOf("API") = {}

\* C4: logged_in() answers TRUE exactly when the authentication cookie is present and
\* non-empty in the cookie jar, whatever the other cookies are; it raises nothing, sends no
\* request and leaves the instance, the cookie jar, the API client, the directories, the
\* files and the table of data products as they were.
C4_LoggedInReadsTheCookie ==
    /\ [](call.op = "logged_in" =>
            /\ outcome.value = (cookies[EROS_SSO] # None /\ cookies[EROS_SSO] # "")
            /\ outcome.exc = None
            /\ io = <<>>)
    /\ [][call'.op = "logged_in" =>
            UNCHANGED <<inst, cookies, api, dirs, files, DATA_PRODUCTS>>]_vars

\* C4 happens: logged_in() answered FALSE on a jar with an empty authentication cookie and
\* another cookie set
C4_Witness ==
    /\ call.op = "logged_in" /\ outcome.value = FALSE
    /\ cookies[EROS_SSO] = "" /\ cookies["other"] = "tok"

\* C5 as claimed: every streamed GET of a download is sent with the authentication cookie
\* present and non-empty in the cookie jar.
C5_DownloadOnlyLoggedIn ==
    call.op = "download" => \A i \in EventsOf("GET stream") : AuthCookie(io[i].jar)

\* C5 as amended: the streamed GET of a download is sent with the cookie jar as it stood
\* when download was called, so with the authentication cookie exactly when logged_in() was
\* true then; it is when the download directly follows a construction or a login that
\* returned normally.
C5_DownloadSendsTheJarOfTheCall ==
    [][call'.op = "download" =>
        \A i \in DOMAIN io' : io'[i].kind = "GET stream" =>
            /\ io'[i].jar = cookies
            /\ AuthCookie(io'[i].jar) <=> logged_in(cookies)
            /\ (call.op \in {"__init__", "login"} /\ outcome.exc = None)
                    => AuthCookie(io'[i].jar)]_vars

\* C5 happens: a download sent its GET without the cookie and returned a path
C5_Witness ==
    /\ call.op = "download" /\ outcome.exc = None
    /\ \E i \in EventsOf("GET stream") : ~AuthCookie(io[i].jar)

\* the dataset a download works with: the answer of guess_dataset when it was asked, else
\* the argument
EffectiveDataset ==
    IF EventsOf("guess_dataset") # {}
    THEN io[CHOOSE i \in EventsOf("guess_dataset") : TRUE].rsp.value
    ELSE call.args[3]

\* makedirs and guess_dataset raised nothing: the download has an effective dataset
Prepared == \A i \in EventsOf("makedirs") \cup EventsOf("guess_dataset") : io[i].rsp.exc = None

\* C6: a download of a product identifier calls get_scene_id at most once, exactly once
\* when makedirs and guess_dataset raised nothing, with that identifier and the effective
\* dataset, before any streamed GET, and the URL of the GET carries the scene id it
\* answered; a download of a scene identifier never calls it and the URL carries the
\* identifier unchanged.
C6_ResolverOnceBeforeTheUrl ==
    call.op = "download" =>
        LET identifier == call.args[1]
            R == EventsOf("get_scene_id")
            G == EventsOf("GET stream")
        IN  IF identifier \in ProductIds
            THEN /\ Cardinality(R) <= 1
                 /\ Prepared => Cardinality(R) = 1
                 /\ \A r \in R :
                        /\ io[r].target = identifier
                        /\ io[r].data = EffectiveDataset
                        /\ \A g \in G : r < g
                 /\ \A g \in G : \E r \in R :
                        /\ io[r].rsp.exc = None
                        /\ io[g].target =
                              EE_DOWNLOAD_URL(DataProductsTable[EffectiveDataset], io[r].rsp.value)
            ELSE /\ R = {}
                 /\ \A g \in G :
                        io[g].target = EE_DOWNLOAD_URL(DataProductsTable[EffectiveDataset], identifier)

\* C6 happens: a download of a product identifier with a guessed dataset sent its GET
C6_Witness ==
    /\ call.op = "download" /\ call.args[1] \in ProductIds
    /\ EventsOf("guess_dataset") # {} /\ EventsOf("get_scene_id") # {}
    /\ EventsOf("GET stream") # {}

\* C7 as claimed: a download called with a dataset argument that is a string and has no
\* entry in the table fails and sends no streamed GET.
C7_UnknownDatasetFails ==
    (call.op = "download" /\ call.args[3] # None /\ call.args[3] \notin DOMAIN DataProductsTable)
        => outcome.exc # None /\ EventsOf("GET stream") = {}

\* C7 as amended: a download called with a non-empty dataset name that has no entry in the
\* table fails and sends no streamed GET, for both shapes of identifier; it fails with
\* KeyError when makedirs and get_scene_id raised nothing.
C7_UnknownNameFails ==
    (call.op = "download" /\ call.args[3] \notin {None, ""}
                          /\ call.args[3] \notin DOMAIN DataProductsTable)
        => /\ outcome.exc # None
           /\ outcome.value = None
           /\ EventsOf("GET stream") = {}
           /\ EventsOf("guess_dataset") = {}
           /\ (\A i \in DOMAIN io : io[i].rsp.exc = None) => outcome.exc = "KeyError"

\* C7 happens: a download of a product identifier with an unknown name called
\* get_scene_id and failed with KeyError
C7_Witness ==
    /\ call.op = "download" /\ call.args[1] \in ProductIds /\ call.args[3] = "landsat_9"
    /\ EventsOf("get_scene_id") # {} /\ outcome.exc = "KeyError"

\* the scene id a download asks for: the answer of get_scene_id when it was asked, else
\* the argument
ResolvedSceneId ==
    IF EventsOf("get_scene_id") # {}
    THEN io[CHOOSE i \in EventsOf("get_scene_id") : TRUE].rsp.value
    ELSE call.args[1]

\* C8: a download whose streamed GET timed out, before the response or while the body was
\* read, fails with EarthExplorerError and the message of the timeout of the call, after
\* one GET.
C8_TimeoutIsDownloadError ==
    (/\ call.op = "download"
     /\ \E i \in EventsOf("GET stream") :
            \/ io[i].rsp.exc \in {"ConnectTimeout", "ReadTimeout"}
            \/ io[i].rsp.exc = None /\ EventsOf("open") # {} /\ io[i].rsp.tail = "ReadTimeoutError")
        => /\ outcome.exc = "EarthExplorerError"
           /\ outcome.msg = "Connection timeout after " \o ToString(call.args[4]) \o " seconds."
           /\ Cardinality(EventsOf("GET stream")) = 1

\* C9: the URL of every streamed GET of a download is the base URL, "/download/", the
\* product code of the effective dataset, "/", the resolved scene id and "/EE/"; for
\* landsat_ot_c2_l1 and LC80100172015082LGN00 it is
\* https://earthexplorer.usgs.gov/download/5e81f14f92acf9ef/LC80100172015082LGN00/EE/; and
\* the table of data products is never changed.
C9_DownloadUrl ==
    /\ DATA_PRODUCTS = DataProductsTable
    /\ DATA_PRODUCTS["landsat_ot_c2_l1"] = "5e81f14f92acf9ef"
    /\ call.op = "download" =>
        \A g \in EventsOf("GET stream") :
            /\ EffectiveDataset \in DOMAIN DATA_PRODUCTS
            /\ io[g].target = "https://earthexplorer.usgs.gov" \o "/download/"
                                \o DATA_PRODUCTS[EffectiveDataset] \o "/" \o ResolvedSceneId \o "/EE/"
            /\ (EffectiveDataset = "landsat_ot_c2_l1" /\ ResolvedSceneId = "LC80100172015082LGN00")
                => io[g].target =
                    "https://earthexplorer.usgs.gov/download/5e81f14f92acf9ef/LC80100172015082LGN00/EE/"

\* C9 happens: a download of a product identifier asked for the URL of the example
C9_Witness ==
    /\ call.op = "download" /\ call.args[1] \in ProductIds
    /\ \E g \in EventsOf("GET stream") :
        io[g].target =
            "https://earthexplorer.usgs.gov/download/5e81f14f92acf9ef/LC80100172015082LGN00/EE/"

\* the filename a Content-Disposition header names: what follows its last "=", all of it
\* when it has none, without the double quotes
ServerFilename(cd) ==
    LET k == CHOOSE k \in 0..Len(cd) :
                /\ k = 0 \/ cd[k] = "="
                /\ \A i \in (k + 1)..Len(cd) : cd[i] # "="
    IN  SelectSeq(SubSeq(cd, k + 1, Len(cd)), LAMBDA c : c # QUOTE)

\* the path join of a directory and a name: an absolute name stands alone, and a separator
\* is put between the two unless the directory is empty or ends with one
PathJoin(dir, name) ==
    IF name # <<>> /\ name[1] = "/" THEN name
    ELSE IF dir = <<>> \/ dir[Len(dir)] = "/" THEN dir \o name
    ELSE dir \o <<"/">> \o name

\* C10: a download that opened its output file opened, for writing, the path join of the
\* output directory and the filename of the response's Content-Disposition header (what
\* follows the last "=", double quotes removed); the file is on disk at that path, and a
\* download that returns normally returns that path; Content-Disposition f="LC.tar" in
\* directory o gives o/LC.tar.
C10_OutputPath ==
    /\ local_path(<<"o">>, <<"f", "=", QUOTE, "L", "C", ".", "t", "a", "r", QUOTE>>)
            = <<"o", "/", "L", "C", ".", "t", "a", "r">>
    /\ call.op = "download" =>
        /\ outcome.exc = None => EventsOf("open") # {}
        /\ \A o \in EventsOf("open") : io[o].rsp.exc = None =>
            \E g \in EventsOf("GET stream") :
                LET path == PathJoin(call.args[2],
                                     ServerFilename(io[g].rsp.headers["Content-Disposition"]))
                IN  /\ g < o
                    /\ io[o].target = path
                    /\ io[o].data = "wb"
                    /\ path \in DOMAIN files
                    /\ outcome.exc = None => outcome.value = path

\* C10 happens: Content-Disposition a="a" in directory o/ gave the file o/a
C10_Witness ==
    /\ call.op = "download" /\ outcome.exc = None
    /\ call.args[2] = <<"o", "/">>
    /\ outcome.value = <<"o", "/", "a">>
    /\ \E g \in EventsOf("GET stream") :
        io[g].rsp.headers["Content-Disposition"] = <<"a", "=", QUOTE, "a">>

\* the positions in io of the requests to one URL with one method
RequestsTo(kind, url) == {i \in EventsOf(kind) : io[i].target = url}

\* C11: a login attempt sends exactly one GET of the login page, first, and at most one POST,
\* and nothing else but the constructor's API call; a download asks get_scene_id at most
\* once and sends at most one streamed GET, and no login request; a logout sends exactly one
\* GET of the logout URL; and when a request or collaborator call raised, it is the last one
\* of the operation and the operation raises: the same exception, or EarthExplorerError for
\* a timeout of the streamed GET.
C11_NoRetryNoSwallow ==
    /\ LoginAttempt =>
        /\ Cardinality(RequestsTo("GET", EE_LOGIN_URL)) = 1
        /\ io[1].kind = "GET"
        /\ Cardinality(EventsOf("POST")) <= 1
        /\ \A i \in DOMAIN io : io[i].kind \in {"GET", "POST", "API"}
    /\ call.op = "download" =>
        /\ Cardinality(EventsOf("get_scene_id")) <= 1
        /\ Cardinality(EventsOf("GET stream")) <= 1
        /\ EventsOf("GET") \cup EventsOf("POST") = {}
    /\ call.op = "logout" =>
        /\ Len(io) = 1
        /\ Cardinality(RequestsTo("GET", EE_LOGOUT_URL)) = 1
    /\ \A i \in DOMAIN io : io[i].rsp.exc # None =>
        /\ i = Len(io)
        /\ outcome.exc = IF io[i].kind = "GET stream" /\ io[i].rsp.exc \in {"ConnectTimeout", "ReadTimeout"}
                         THEN "EarthExplorerError" ELSE io[i].rsp.exc

\* C11 happens: the GET of a logout failed and logout raised that failure
C11_Witness ==
    /\ call.op = "logout" /\ io[1].rsp.exc = "ConnectionError"
    /\ outcome.exc = "ConnectionError"

\* the non-empty chunks of a body, in the order of arrival
NonEmptyChunks(chunks) == SelectSeq(chunks, LAMBDA c : c.size # 0)

\* the streamed GET of the last download was answered and its output file was opened
Streaming(g) ==
    /\ g \in EventsOf("GET stream") /\ io[g].rsp.exc = None
    /\ \E o \in EventsOf("open") : g < o /\ io[o].rsp.exc = None

\* C12: a download that returns normally returns the path of a file on disk that is closed
\* and holds exactly the non-empty chunks of the whole response body, in the order of
\* arrival, the body having ended without error; a download whose body is cut by an error
\* raises and returns no path, as does every download that raises.
C12_PathOnlyAfterTheWholeBody ==
    call.op = "download" =>
        /\ outcome.exc = None =>
            \E g \in EventsOf("GET stream") :
                /\ Streaming(g)
                /\ io[g].rsp.tail = "eof"
                /\ outcome.value \in DOMAIN files
                /\ files[outcome.value].closed
                /\ files[outcome.value].data = NonEmptyChunks(io[g].rsp.chunks)
        /\ (\E g \in EventsOf("GET stream") : Streaming(g) /\ io[g].rsp.tail # "eof")
                => outcome.exc # None
        /\ outcome.exc # None => outcome.value = None

\* C12 happens: a download returned the path of a file with the one non-empty chunk of a
\* body of two chunks
C12_Witness ==
    /\ call.op = "download" /\ outcome.exc = None
    /\ \E g \in EventsOf("GET stream") :
        /\ Len(io[g].rsp.chunks) = 2
        /\ io[g].rsp.chunks[1].size = 0
        /\ Len(files[outcome.value].data) = 1

\* C13: when a download has opened its output file, then however the download ends
\* (normal return or any error while the body is read) the file is on disk at the opened
\* path, closed, and holds the non-empty chunks received before the end or the error; and
\* every file on disk is closed.
C13_FileClosedAndKept ==
    /\ \A f \in DOMAIN files : files[f].closed
    /\ call.op = "download" =>
        \A g \in EventsOf("GET stream") : Streaming(g) =>
            \A o \in EventsOf("open") :
                /\ io[o].target \in DOMAIN files
                /\ files[io[o].target].closed
                /\ files[io[o].target].data = NonEmptyChunks(io[g].rsp.chunks)

\* C13 happens: a read timeout cut the body after two chunks; the download raised and the
\* file holds the two chunks
C13_Witness ==
    /\ call.op = "download" /\ outcome.exc = "ConnectionError"
    /\ \E g \in EventsOf("GET stream") : Streaming(g) /\ io[g].rsp.tail = "ReadTimeoutError"
    /\ \E o \in EventsOf("open") : Len(files[io[o].target].data) = 2

\* C14: a logout sends one GET to the logout URL, with the cookie jar as it stands, and
\* changes in the jar only the cookies the response to that GET sets or deletes: when the
\* GET fails or its response sets and deletes no cookie, the jar, and with it the answer of
\* logged_in(), is after the logout what it was before.
C14_LogoutLeavesTheJar ==
    /\ [](call.op = "logout" =>
            /\ Len(io) = 1
            /\ io[1].kind = "GET" /\ io[1].target = EE_LOGOUT_URL)
    /\ [][call'.op = "logout" =>
            /\ io'[1].jar = cookies
            /\ \A n \in CookieNames :
                    (io'[1].rsp.exc # None \/ \A u \in io'[1].rsp.set : u[1] # n)
                        => cookies'[n] = cookies[n]
            /\ (io'[1].rsp.exc # None \/ io'[1].rsp.set = {}) =>
                    /\ cookies' = cookies
                    /\ AuthCookie(cookies') <=> AuthCookie(cookies)]_vars

\* C14 happens: after a logout whose response set no cookie the instance is still logged in
C14_Witness ==
    /\ call.op = "logout" /\ outcome.exc = None
    /\ io[1].rsp.set = {}
    /\ AuthCookie(io[1].jar) /\ AuthCookie(cookies)

\* the first value of an attribute in a text: after the leftmost occurrence of head that is
\* followed by at least one character and then, on the same line, by a double quote, the
\* characters up to the first such quote; <<>> when head has no such occurrence
FirstValue(head, s) ==
    LET Closes(i) == {j \in (i + Len(head) + 1)..Len(s) :
                        /\ s[j] = QUOTE
                        /\ \A m \in (i + Len(head))..(j - 1) : s[m] # NEWLINE}
        Starts == {i \in 1..(Len(s) - Len(head) + 1) :
                        SubSeq(s, i, i + Len(head) - 1) = head /\ Closes(i) # {}}
    IN  IF Starts = {} THEN <<>>
        ELSE LET i == CHOOSE i \in Starts : \A k \in Starts : i <= k
                 j == CHOOSE j \in Closes(i) : \A k \in Closes(i) : j <= k
             IN  SubSeq(s, i + Len(head), j - 1)

\* C15: in a login attempt every POST comes after the GET of the login page, which was
\* answered, and its payload has exactly the fields username, password, csrf and
\* __ncforminfo: the username and password of this call and the first csrf value and the
\* first __ncforminfo value of the body that GET returned, both non-empty.
C15_PayloadFromThisPage ==
    LoginAttempt =>
        \A p \in EventsOf("POST") :
            /\ p = 2
            /\ io[1].kind = "GET" /\ io[1].target = EE_LOGIN_URL /\ io[1].rsp.exc = None
            /\ io[p].target = EE_LOGIN_URL
            /\ DOMAIN io[p].data = {"username", "password", "csrf", "__ncforminfo"}
            /\ io[p].data.username = call.args[1]
            /\ io[p].data.password = call.args[2]
            /\ io[p].data.csrf = FirstValue(CsrfHead, Text(io[1].rsp.body))
            /\ io[p].data.__ncforminfo = FirstValue(NcformHead, Text(io[1].rsp.body))
            /\ io[p].data.csrf # <<>>
            /\ io[p].data.__ncforminfo # <<>>

\* C15 happens: a login on a logged-in instance posted the tokens c and b of its own page
C15_Witness ==
    /\ call.op = "login" /\ AuthCookie(io[1].jar)
    /\ io[1].rsp.body = <<"csrf2", "ncform">>
    /\ \E p \in EventsOf("POST") :
        io[p].data.csrf = <<"c">> /\ io[p].data.__ncforminfo = <<"b">>

\* the number of bytes of a sequence of chunks
RECURSIVE ByteCount(_)
ByteCount(chunks) == IF chunks = <<>> THEN 0 ELSE Head(chunks).size + ByteCount(Tail(chunks))

\* C16: a download makes at most one progress bar, with total the number of the
\* Content-Length header (20 for the header 20); the bar counts 0 when no chunk was
\* received, and after the body's chunks were received it counts the number of non-empty
\* chunks times the chunk size (1024), which is at least the number of bytes written to the
\* file and more exactly when a non-empty chunk was shorter than the chunk size.
C16_ProgressCountsChunks ==
    call.op = "download" =>
        /\ Len(pbar) <= 1
        /\ \A k \in DOMAIN pbar : \A g \in EventsOf("GET stream") :
            /\ io[g].rsp.exc = None
            /\ io[g].rsp.headers["Content-Length"] = <<"2", "0">> => pbar[k].total = 20
            /\ ~Streaming(g) => pbar[k].n = 0
        /\ \A g \in EventsOf("GET stream") : Streaming(g) =>
            LET received == NonEmptyChunks(io[g].rsp.chunks)
                written == files[io[CHOOSE o \in EventsOf("open") : TRUE].target].data
            IN  /\ Len(pbar) = 1
                /\ pbar[1].n = Len(received) * DefaultChunkSize
                /\ pbar[1].n >= ByteCount(written)
                /\ pbar[1].n > ByteCount(written)
                        <=> \E i \in DOMAIN received : received[i].size < DefaultChunkSize

\* C16 happens: after a short chunk and an empty chunk the bar counts 1024 for 1 byte written
C16_Witness ==
    /\ call.op = "download" /\ outcome.exc = None
    /\ pbar # <<>> /\ pbar[1].n = 1024 /\ pbar[1].total = 20
    /\ \E g \in EventsOf("GET stream") :
        /\ Len(io[g].rsp.chunks) = 2
        /\ io[g].rsp.chunks[1].size = 1 /\ io[g].rsp.chunks[2].size = 0

\* the streamed GET was answered by a response without the header
Lacks(g, name) == io[g].rsp.exc = None /\ name \notin DOMAIN io[g].rsp.headers

\* C17: a download whose streamed GET is answered by a response that lacks the
\* Content-Length header or the Content-Disposition header raises and returns no path, and
\* it opens no output file: no file exists afterwards.
C17_MissingHeaderFailsBeforeTheFile ==
    call.op = "download" =>
        \A g \in EventsOf("GET stream") :
            (Lacks(g, "Content-Length") \/ Lacks(g, "Content-Disposition")) =>
                /\ outcome.exc # None
                /\ outcome.value = None
                /\ EventsOf("open") = {}
                /\ files = <<>>

\* C17 happens: a response with Content-Length and without Content-Disposition was received
\* and the download raised KeyError
C17_Witness ==
    /\ call.op = "download" /\ outcome.exc = "KeyError"
    /\ \E g \in EventsOf("GET stream") :
        Lacks(g, "Content-Disposition") /\ ~Lacks(g, "Content-Length")

\* C18: a login call made while the jar holds the authentication cookie, whose GET and
\* POST are both answered by responses that do not delete that cookie, returns normally and
\* leaves the cookie in the jar, whatever the status of the POST and whether or not it set
\* a cookie.
C18_StaleCookiePassesLogin ==
    [][(/\ call'.op = "login"
        /\ AuthCookie(cookies)
        /\ \E i \in DOMAIN io' : io'[i].kind = "POST" /\ io'[i].rsp.exc = None
        /\ \A i \in DOMAIN io' : <<EROS_SSO, None>> \notin io'[i].rsp.set)
       => outcome'.exc = None /\ AuthCookie(cookies')]_vars

\* C18 happens: a login sent with the cookie already in the jar was answered 401 without
\* any cookie and returned normally
C18_Witness ==
    /\ call.op = "login" /\ outcome.exc = None
    /\ \E i \in EventsOf("POST") :
        /\ AuthCookie(io[i].jar)
        /\ io[i].rsp.exc = None /\ io[i].rsp.status = 401 /\ io[i].rsp.set = {}

\* C19: a download sends no request of a login and raises neither an AuthenticationError
\* nor the error of a failed login; called while the jar holds no authentication cookie
\* (after a logout that deleted it, or after a login that failed), it still calls the
\* resolver for a product identifier when makedirs and guess_dataset raised nothing, and it
\* still sends the streamed GET, with the jar of the session as it stood, when the
\* identifier was resolved and the dataset has a product.
C19_DownloadNeedsNoLogin ==
    [][call'.op = "download" =>
        LET Of(kind) == {i \in DOMAIN io' : io'[i].kind = kind}
            identifier == call'.args[1]
            prepared == \A i \in Of("makedirs") \cup Of("guess_dataset") : io'[i].rsp.exc = None
            effective == IF Of("guess_dataset") # {}
                         THEN io'[CHOOSE i \in Of("guess_dataset") : TRUE].rsp.value
                         ELSE call'.args[3]
            resolved == identifier \in ProductIds =>
                            \E r \in Of("get_scene_id") : io'[r].rsp.exc = None
        IN  /\ \A i \in DOMAIN io' : io'[i].kind \notin {"GET", "POST", "API"}
            /\ outcome'.exc # "AuthenticationError"
            /\ outcome'.msg # "EE: login failed."
            /\ ~AuthCookie(cookies) =>
                /\ (prepared /\ identifier \in ProductIds) => Of("get_scene_id") # {}
                /\ (prepared /\ resolved /\ effective \in DOMAIN DataProductsTable) =>
                        \E g \in Of("GET stream") : io'[g].jar = cookies]_vars

\* C19 happens: a download of a product identifier called the resolver and sent the
\* streamed GET with a jar that holds no authentication cookie
C19_Witness ==
    /\ call.op = "download"
    /\ EventsOf("get_scene_id") # {}
    /\ \E g \in EventsOf("GET stream") : ~AuthCookie(io[g].jar)

=============================================================================
